---- MODULE Spec2Model ----
(***************************************************************************)
(* Model of handler.py: class DuplicateFileHandler and main().              *)
(*                                                                         *)
(* A directory tree is a sequence of files in os.walk order; a file is a   *)
(* path (a sequence of characters) and its content (a sequence of bytes).  *)
(* Python dicts keep insertion order, so a dict is a sequence of           *)
(* [key, val] entries with pairwise different keys.                        *)
(***************************************************************************)
EXTENDS Integers, Sequences, FiniteSets, TLC

\* Bounds of the model.
MaxFiles == 4          \* files under the root path
MaxBatch == 3          \* file numbers typed at the deletion prompt

\* The first character of the i-th file's name; the rest is its extension.
Names == <<"a", "b", "c", "d", "e", "f", "g", "h">>

\* A file kind is the tail of a file name and a content.  Contents [1,2] and
\* [2,1] have one size and one digest, [2,2] has their size and another
\* digest, [3] has another size and their digest.
FileKinds ==
    { [ext |-> <<"t">>, content |-> <<1, 2>>],
      [ext |-> <<"p">>, content |-> <<2, 1>>],
      [ext |-> <<"t">>, content |-> <<2, 2>>],
      [ext |-> <<"t">>, content |-> <<3>>] }

\* Answers to "Enter file format:".
Formats == { <<>>, <<"t">>, <<"p">> }

VARIABLES
    fs,                    \* the tree under root_path, in os.walk order
    tree,                  \* the tree as it was when the first run started
    pc,                    \* position in start_file_handler
    file_format,           \* answer to "Enter file format:"
    sorting,               \* answer to the sorting prompt (TRUE = descending)
    delete,                \* answer to "Check for duplicates?"
    file_numbers,          \* the numbers passed to delete_files
    files,                 \* self.files
    files_by_hash_value,   \* self.files_by_hash_value
    duplicate_files_dict,  \* self.duplicate_files_dict
    duplicate_files,       \* self.duplicate_files
    opened,                \* paths opened with open(file, 'rb'), in order
    listing,               \* lines printed by output_files
    dup_listing,           \* lines printed by output_duplicates
    report,                \* lines printed by delete_files
    calls,                 \* methods start_file_handler has invoked, in order
    prev                   \* grouping of the previous run of main(), or <<>>

vars == << fs, tree, pc, file_format, sorting, delete, file_numbers, files,
           files_by_hash_value, duplicate_files_dict, duplicate_files,
           opened, listing, dup_listing, report, calls, prev >>

----------------------------------------------------------------------------
\* Ordered dicts and lists.

Range(s) == { s[i] : i \in 1..Len(s) }

Keys(d) == [ i \in 1..Len(d) |-> d[i].key ]

HasKey(d, k) == \E i \in 1..Len(d) : d[i].key = k

Get(d, k) == d[CHOOSE i \in 1..Len(d) : d[i].key = k].val

\* d[k] = v
SetItem(d, k, v) ==
    IF HasKey(d, k)
    THEN [ i \in 1..Len(d) |-> IF d[i].key = k THEN [key |-> k, val |-> v] ELSE d[i] ]
    ELSE Append(d, [key |-> k, val |-> v])

\* d[k].append(v) on a defaultdict(list)
AppendItem(d, k, v) ==
    SetItem(d, k, IF HasKey(d, k) THEN Append(Get(d, k), v) ELSE <<v>>)

----------------------------------------------------------------------------
\* The file system and hashlib.

Paths(t) == { t[i].path : i \in 1..Len(t) }

exists(t, path) == path \in Paths(t)

Content(t, path) == t[CHOOSE i \in 1..Len(t) : t[i].path = path].content

\* os.path.getsize of an existing file
getsize(t, path) == Len(Content(t, path))

RECURSIVE SumBytes(_)
SumBytes(content) ==
    IF content = <<>> THEN 0 ELSE Head(content) + SumBytes(Tail(content))

\* hashlib.md5().update(content).hexdigest(): a function of the content alone
\* that is not injective.
hexdigest(content) == SumBytes(content) % 16

\* os.remove
remove(t, path) == SelectSeq(t, LAMBDA f : f.path # path)

\* str.endswith
endswith(s, suffix) ==
    /\ Len(suffix) <= Len(s)
    /\ SubSeq(s, Len(s) - Len(suffix) + 1, Len(s)) = suffix

----------------------------------------------------------------------------
\* __init__: the fields of a new handler.

NewFiles == <<>>
NewFilesByHashValue == <<>>
NewDuplicateFilesDict == <<>>
NewDuplicateFiles == <<>>

Trees ==
    UNION { [ 1..n -> FileKinds ] : n \in 0..MaxFiles }

MakeTree(kinds) ==
    [ i \in 1..Len(kinds) |->
        [path |-> <<Names[i]>> \o kinds[i].ext, content |-> kinds[i].content] ]

Init ==
    /\ \E kinds \in Trees : fs = MakeTree(kinds)
    /\ tree = fs
    /\ pc = "start"
    /\ file_format = <<>>
    /\ sorting = FALSE
    /\ delete = FALSE
    /\ file_numbers = <<>>
    /\ files = NewFiles
    /\ files_by_hash_value = NewFilesByHashValue
    /\ duplicate_files_dict = NewDuplicateFilesDict
    /\ duplicate_files = NewDuplicateFiles
    /\ opened = <<>>
    /\ listing = <<>>
    /\ dup_listing = <<>>
    /\ report = <<>>
    /\ calls = <<>>
    /\ prev = <<>>

----------------------------------------------------------------------------
\* add_files

\* One turn of the inner loop: a file of the walk.
add_files_step(d, t, f, fmt) ==
    IF endswith(f.path, fmt)
    THEN AppendItem(d, getsize(t, f.path), f.path)
    ELSE d

RECURSIVE add_files_loop(_, _, _, _)
add_files_loop(d, t, walk, fmt) ==
    IF walk = <<>> THEN d
    ELSE add_files_loop(add_files_step(d, t, Head(walk), fmt), t, Tail(walk), fmt)

add_files ==
    /\ pc = "start"
    /\ \E fmt \in Formats :
         /\ file_format' = fmt
         /\ files' = add_files_loop(files, fs, fs, fmt)
    /\ pc' = "indexed"
    /\ calls' = Append(calls, "add_files")
    /\ UNCHANGED << fs, tree, sorting, delete, file_numbers, files_by_hash_value,
                    duplicate_files_dict, duplicate_files, opened, listing,
                    dup_listing, report, prev >>

----------------------------------------------------------------------------
\* add_files_by_hash_value

\* hash_file_step with hash_dict[hash_value] = [file] for the append.
hash_file_step_assign(acc, t, file) ==
    [ hash_dict |-> SetItem(acc.hash_dict, hexdigest(Content(t, file)), <<file>>),
      opened    |-> Append(acc.opened, file) ]

\* One turn of the inner loop: open the file, read it, digest it, file it
\* under its digest.  acc is [hash_dict, opened].
hash_file_step(acc, t, file) ==
    [ hash_dict |-> AppendItem(acc.hash_dict, hexdigest(Content(t, file)), file),
      opened    |-> Append(acc.opened, file) ]

RECURSIVE hash_files_loop(_, _, _)
hash_files_loop(acc, t, fl) ==
    IF fl = <<>> THEN acc
    ELSE hash_files_loop(hash_file_step(acc, t, Head(fl)), t, Tail(fl))

\* One turn of the outer loop: an item (size, files) of self.files.
\* acc is [by_hash, opened].
hash_size_step(acc, t, item) ==
    LET inner == hash_files_loop([hash_dict |-> <<>>, opened |-> acc.opened],
                                 t, item.val)
    IN  [ by_hash |-> SetItem(acc.by_hash, item.key, inner.hash_dict),
          opened  |-> inner.opened ]

RECURSIVE hash_sizes_loop(_, _, _)
hash_sizes_loop(acc, t, items) ==
    IF items = <<>> THEN acc
    ELSE hash_sizes_loop(hash_size_step(acc, t, Head(items)), t, Tail(items))

add_files_by_hash_value ==
    /\ pc = "indexed"
    /\ LET r == hash_sizes_loop([by_hash |-> files_by_hash_value, opened |-> opened],
                                fs, files)
       IN  /\ files_by_hash_value' = r.by_hash
           /\ opened' = r.opened
    /\ pc' = "hashed"
    /\ calls' = Append(calls, "add_files_by_hash_value")
    /\ UNCHANGED << fs, tree, file_format, sorting, delete, file_numbers, files,
                    duplicate_files_dict, duplicate_files, listing, dup_listing,
                    report, prev >>

----------------------------------------------------------------------------
\* add_duplicate_files

\* One turn of the inner loop: an item (hash_value, files) of hash_dict.
duplicate_hash_step(duplicate_hash_dict, item) ==
    IF Len(item.val) > 1
    THEN SetItem(duplicate_hash_dict, item.key, item.val)
    ELSE duplicate_hash_dict

RECURSIVE duplicate_hash_loop(_, _)
duplicate_hash_loop(duplicate_hash_dict, items) ==
    IF items = <<>> THEN duplicate_hash_dict
    ELSE duplicate_hash_loop(duplicate_hash_step(duplicate_hash_dict, Head(items)),
                             Tail(items))

\* duplicate_size_step without the test of duplicate_hash_dict.
duplicate_size_step_untested(dups, item) ==
    SetItem(dups, item.key, duplicate_hash_loop(<<>>, item.val))

\* One turn of the outer loop: an item (size, hash_dict).
duplicate_size_step(dups, item) ==
    LET duplicate_hash_dict == duplicate_hash_loop(<<>>, item.val)
    IN  IF duplicate_hash_dict # <<>>
        THEN SetItem(dups, item.key, duplicate_hash_dict)
        ELSE dups

RECURSIVE duplicate_size_loop(_, _)
duplicate_size_loop(dups, items) ==
    IF items = <<>> THEN dups
    ELSE duplicate_size_loop(duplicate_size_step(dups, Head(items)), Tail(items))

add_duplicate_files ==
    /\ pc = "hashed"
    /\ duplicate_files_dict' = duplicate_size_loop(duplicate_files_dict,
                                                   files_by_hash_value)
    /\ pc' = "built"
    /\ calls' = Append(calls, "add_duplicate_files")
    /\ UNCHANGED << fs, tree, file_format, sorting, delete, file_numbers, files,
                    files_by_hash_value, duplicate_files, opened, listing,
                    dup_listing, report, prev >>

----------------------------------------------------------------------------
\* sorted(..., reverse=reverse) on pairwise different sizes

\* precedes with the reverse flag dropped.
precedes_ascending(x, y, reverse) == x < y

precedes(x, y, reverse) == IF reverse THEN x > y ELSE x < y

RECURSIVE insert_sorted(_, _, _)
insert_sorted(x, s, reverse) ==
    IF s = <<>> THEN <<x>>
    ELSE IF precedes(x, Head(s), reverse) THEN <<x>> \o s
    ELSE <<Head(s)>> \o insert_sorted(x, Tail(s), reverse)

RECURSIVE sorted(_, _)
sorted(s, reverse) ==
    IF s = <<>> THEN <<>>
    ELSE insert_sorted(Head(s), sorted(Tail(s), reverse), reverse)

----------------------------------------------------------------------------
\* output_files

PathLines(fl) == [ i \in 1..Len(fl) |-> [kind |-> "path", file |-> fl[i]] ]

\* One turn of the loop: a size of the sorted keys.
output_files_step(lines, d, size) ==
    (lines \o << [kind |-> "size", size |-> size] >>) \o PathLines(Get(d, size))

RECURSIVE output_files_loop(_, _, _)
output_files_loop(lines, d, sizes) ==
    IF sizes = <<>> THEN lines
    ELSE output_files_loop(output_files_step(lines, d, Head(sizes)), d, Tail(sizes))

output_files ==
    /\ pc = "built"
    /\ \E answer \in BOOLEAN :
         /\ sorting' = answer
         /\ listing' = output_files_loop(listing, files, sorted(Keys(files), answer))
    /\ pc' = "listed"
    /\ calls' = Append(calls, "output_files")
    /\ UNCHANGED << fs, tree, file_format, delete, file_numbers, files,
                    files_by_hash_value, duplicate_files_dict, duplicate_files,
                    opened, dup_listing, report, prev >>

----------------------------------------------------------------------------
\* output_duplicates.  acc is [index, lines, duplicate_files].

\* output_duplicates_file with the index incremented before it is printed.
output_duplicates_file_early(acc, file) ==
    [ index |-> acc.index + 1,
      lines |-> Append(acc.lines,
                       [kind |-> "file", index |-> acc.index + 1, file |-> file]),
      duplicate_files |-> Append(acc.duplicate_files, file) ]

\* One turn of the innermost loop: a file of a digest group.
output_duplicates_file(acc, file) ==
    [ index |-> acc.index + 1,
      lines |-> Append(acc.lines,
                       [kind |-> "file", index |-> acc.index, file |-> file]),
      duplicate_files |-> Append(acc.duplicate_files, file) ]

RECURSIVE output_duplicates_files(_, _)
output_duplicates_files(acc, fl) ==
    IF fl = <<>> THEN acc
    ELSE output_duplicates_files(output_duplicates_file(acc, Head(fl)), Tail(fl))

\* One turn of the middle loop: an item (hash_value, files).
output_duplicates_hash(acc, item) ==
    output_duplicates_files(
        [acc EXCEPT !.lines = Append(@, [kind |-> "hash", hash |-> item.key])],
        item.val)

RECURSIVE output_duplicates_hashes(_, _)
output_duplicates_hashes(acc, items) ==
    IF items = <<>> THEN acc
    ELSE output_duplicates_hashes(output_duplicates_hash(acc, Head(items)),
                                  Tail(items))

\* One turn of the outer loop: a size of the sorted items.
output_duplicates_size(acc, d, size) ==
    output_duplicates_hashes(
        [acc EXCEPT !.lines = Append(@, [kind |-> "size", size |-> size])],
        Get(d, size))

RECURSIVE output_duplicates_sizes(_, _, _)
output_duplicates_sizes(acc, d, sizes) ==
    IF sizes = <<>> THEN acc
    ELSE output_duplicates_sizes(output_duplicates_size(acc, d, Head(sizes)), d,
                                 Tail(sizes))

output_duplicates ==
    /\ pc = "listed"
    /\ \E answer \in BOOLEAN : delete' = answer
    /\ LET r == output_duplicates_sizes(
                    [index |-> 1, lines |-> dup_listing,
                     duplicate_files |-> duplicate_files],
                    duplicate_files_dict,
                    sorted(Keys(duplicate_files_dict), sorting))
       IN  /\ dup_listing' = r.lines
           /\ duplicate_files' = r.duplicate_files
    /\ pc' = "numbered"
    /\ calls' = Append(calls, "output_duplicates")
    /\ UNCHANGED << fs, tree, file_format, sorting, file_numbers, files,
                    files_by_hash_value, duplicate_files_dict, opened, listing,
                    report, prev >>

----------------------------------------------------------------------------
\* delete_files.  acc is [fs, total_size, raised].

\* list[i] raises IndexError unless -len(list) <= i < len(list)
index_in_range(list, i) == -Len(list) <= i /\ i < Len(list)

\* list[i]: a negative index counts from the end of the list
getitem(list, i) == IF i >= 0 THEN list[i + 1] ELSE list[Len(list) + i + 1]

\* delete_files_step with total_size = size for total_size += size.
delete_files_step_assign(acc, dl, num) ==
    IF ~index_in_range(dl, num - 1) THEN acc
    ELSE LET file == getitem(dl, num - 1)
         IN  IF ~exists(acc.fs, file)
             THEN [acc EXCEPT !.raised = TRUE]
             ELSE [ fs         |-> remove(acc.fs, file),
                    total_size |-> getsize(acc.fs, file),
                    raised     |-> FALSE ]

\* delete_files_step with a path that is gone skipped like a number out of
\* range.
delete_files_step_skip(acc, dl, num) ==
    IF ~index_in_range(dl, num - 1) THEN acc
    ELSE LET file == getitem(dl, num - 1)
         IN  IF ~exists(acc.fs, file)
             THEN acc
             ELSE [ fs         |-> remove(acc.fs, file),
                    total_size |-> acc.total_size + getsize(acc.fs, file),
                    raised     |-> FALSE ]

\* One turn of the loop: a file number.  os.path.getsize raises
\* FileNotFoundError for a path that is gone, and nothing catches it.
delete_files_step(acc, dl, num) ==
    IF ~index_in_range(dl, num - 1) THEN acc
    ELSE LET file == getitem(dl, num - 1)
         IN  IF ~exists(acc.fs, file)
             THEN [acc EXCEPT !.raised = TRUE]
             ELSE [ fs         |-> remove(acc.fs, file),
                    total_size |-> acc.total_size + getsize(acc.fs, file),
                    raised     |-> FALSE ]

RECURSIVE delete_files_loop(_, _, _)
delete_files_loop(acc, dl, nums) ==
    IF nums = <<>> \/ acc.raised THEN acc
    ELSE delete_files_loop(delete_files_step(acc, dl, Head(nums)), dl, Tail(nums))

\* What re.fullmatch(r'[\s\d]+', ...) lets through, split and mapped to int,
\* is any list of naturals.  The numbers typed are 0, the first and the last
\* number of the listing, and one number past its end.
FileNumbers == {0, 1, Len(duplicate_files), Len(duplicate_files) + 1}

Batches == UNION { [ 1..n -> FileNumbers ] : n \in 0..MaxBatch }

\* The call self.delete_files(*file_numbers).
delete_files_call ==
    /\ \E nums \in Batches :
         LET r == delete_files_loop([fs |-> fs, total_size |-> 0, raised |-> FALSE],
                                    duplicate_files, nums)
         IN  /\ file_numbers' = nums
             /\ fs' = r.fs
             /\ pc' = IF r.raised THEN "raised" ELSE "deleted"
             /\ report' = IF r.raised THEN report
                          ELSE Append(report, [kind |-> "total", total |-> r.total_size])
    /\ calls' = Append(calls, "delete_files")
    /\ UNCHANGED << tree, file_format, sorting, delete, files, files_by_hash_value,
                    duplicate_files_dict, duplicate_files, opened, listing,
                    dup_listing, prev >>

\* delete_files without the test of the answer.
delete_files_unasked ==
    /\ pc = "numbered"
    /\ delete_files_call

\* if delete: ... self.delete_files(*file_numbers)
delete_files ==
    /\ pc = "numbered"
    /\ delete
    /\ delete_files_call

----------------------------------------------------------------------------
\* main: the program is run again once start_file_handler has returned or
\* raised.  A run builds a new handler; the second run is the last one
\* modelled, and prev keeps the grouping the first one built.

finished ==
    \/ pc = "numbered" /\ ~delete
    \/ pc \in {"deleted", "raised"}

\* main with the handler of the first run used again.
main_same_handler ==
    /\ finished
    /\ prev = <<>>
    /\ prev' = << [ file_format          |-> file_format,
                    files                |-> files,
                    files_by_hash_value  |-> files_by_hash_value,
                    duplicate_files_dict |-> duplicate_files_dict ] >>
    /\ pc' = "start"
    /\ file_format' = <<>>
    /\ sorting' = FALSE
    /\ delete' = FALSE
    /\ file_numbers' = <<>>
    /\ opened' = <<>>
    /\ listing' = <<>>
    /\ dup_listing' = <<>>
    /\ report' = <<>>
    /\ calls' = <<>>
    /\ UNCHANGED << fs, tree, files, files_by_hash_value, duplicate_files_dict,
                    duplicate_files >>

main ==
    /\ finished
    /\ prev = <<>>
    /\ prev' = << [ file_format          |-> file_format,
                    files                |-> files,
                    files_by_hash_value  |-> files_by_hash_value,
                    duplicate_files_dict |-> duplicate_files_dict ] >>
    /\ files' = NewFiles
    /\ files_by_hash_value' = NewFilesByHashValue
    /\ duplicate_files_dict' = NewDuplicateFilesDict
    /\ duplicate_files' = NewDuplicateFiles
    /\ pc' = "start"
    /\ file_format' = <<>>
    /\ sorting' = FALSE
    /\ delete' = FALSE
    /\ file_numbers' = <<>>
    /\ opened' = <<>>
    /\ listing' = <<>>
    /\ dup_listing' = <<>>
    /\ report' = <<>>
    /\ calls' = <<>>
    /\ UNCHANGED << fs, tree >>

----------------------------------------------------------------------------
\* One run of the program.
Next ==
    \/ add_files
    \/ add_files_by_hash_value
    \/ add_duplicate_files
    \/ output_files
    \/ output_duplicates
    \/ delete_files

Spec == Init /\ [][Next]_vars

\* Two runs of the program on a tree no run deletes from.
NextRerun ==
    \/ add_files
    \/ add_files_by_hash_value
    \/ add_duplicate_files
    \/ output_files
    \/ output_duplicates
    \/ main

SpecRerun == Init /\ [][NextRerun]_vars

----------------------------------------------------------------------------
\* Vocabulary of the properties.

Built       == pc \notin {"start", "indexed", "hashed"}
Numbered    == pc \in {"numbered", "deleted", "raised"}
DeleteEnded == pc \in {"deleted", "raised"}

\* The positions <<i, j, k>> of a path in a dict size -> digest -> files.
Positions(dd, path) ==
    UNION { UNION { { <<i, j, k>> :
                      k \in { h \in 1..Len(dd[i].val[j].val) :
                                dd[i].val[j].val[h] = path } } :
                    j \in 1..Len(dd[i].val) } :
            i \in 1..Len(dd) }

Position(dd, path) == CHOOSE pos \in Positions(dd, path) : TRUE

\* The paths filed in a dict size -> digest -> files.
Members(dd) ==
    UNION { UNION { Range(dd[i].val[j].val) : j \in 1..Len(dd[i].val) } :
            i \in 1..Len(dd) }

SizeLines(lines) == SelectSeq(lines, LAMBDA l : l.kind = "size")
FileLines(lines) == SelectSeq(lines, LAMBDA l : l.kind = "file")

\* The files a delete_files call has removed.
Removed == Paths(tree) \ Paths(fs)

RECURSIVE TotalSize(_)
TotalSize(paths) ==
    IF paths = {} THEN 0
    ELSE LET p == CHOOSE q \in paths : TRUE
         IN  getsize(tree, p) + TotalSize(paths \ {p})

N == Len(duplicate_files)

\* The numbers of the batch that lie in 1..N.
ValidTurns == { j \in 1..Len(file_numbers) : file_numbers[j] \in 1..N }

----------------------------------------------------------------------------
\* C1: a delete_files call that completes has removed exactly the files of
\* the requested numbers in 1..N: a number that is 0 or above N removes
\* nothing, and every number in 1..N of the batch removes its file.
C1_OutOfRangeIsNoOp ==
    pc = "deleted" =>
        Removed = { duplicate_files[file_numbers[j]] : j \in ValidTurns }

\* C2: only files whose size bucket holds at least 2 files are opened, and
\* only such sizes get an entry of files_by_hash_value.
C2_OnlySharedSizesHashed ==
    pc = "hashed" =>
        /\ \A i \in 1..Len(opened) :
             Len(Get(files, getsize(tree, opened[i]))) >= 2
        /\ \A i \in 1..Len(files_by_hash_value) :
             Len(Get(files, files_by_hash_value[i].key)) >= 2

\* C3: the numbers output_duplicates prints are 1..N in increasing order, N
\* the number of files in the duplicate sets, and duplicate_files[i] is the
\* path printed with number i.
C3_OrdinalsContiguous ==
    pc = "numbered" =>
        LET fl == FileLines(dup_listing)
        IN  /\ Len(fl) = Cardinality(Members(duplicate_files_dict))
            /\ Len(duplicate_files) = Len(fl)
            /\ \A i \in 1..Len(fl) :
                 /\ fl[i].index = i
                 /\ duplicate_files[i] = fl[i].file

C3_Witness ==
    /\ pc = "numbered"
    /\ Len(duplicate_files_dict) >= 2
    /\ Len(FileLines(dup_listing)) >= 4

\* C4: after add_duplicate_files every digest group of duplicate_files_dict
\* has at least 2 files and no size maps to an empty inner dict: a size is a
\* key exactly when one of its digest groups in files_by_hash_value has at
\* least 2 files.
C4_DuplicateSetsHaveTwo ==
    pc = "built" =>
        /\ \A i \in 1..Len(duplicate_files_dict) :
             /\ duplicate_files_dict[i].val # <<>>
             /\ \A j \in 1..Len(duplicate_files_dict[i].val) :
                  Len(duplicate_files_dict[i].val[j].val) >= 2
        /\ \A i \in 1..Len(files_by_hash_value) :
             HasKey(duplicate_files_dict, files_by_hash_value[i].key)
               <=> \E j \in 1..Len(files_by_hash_value[i].val) :
                     Len(files_by_hash_value[i].val[j].val) >= 2

C4_Witness ==
    /\ pc = "built"
    /\ duplicate_files_dict # <<>>
    /\ \E i \in 1..Len(files_by_hash_value) :
         ~HasKey(duplicate_files_dict, files_by_hash_value[i].key)
    /\ \E i \in 1..Len(files_by_hash_value) :
         /\ HasKey(duplicate_files_dict, files_by_hash_value[i].key)
         /\ Len(Get(duplicate_files_dict, files_by_hash_value[i].key))
              < Len(files_by_hash_value[i].val)

\* C5: after add_files and add_files_by_hash_value every hashed file is in
\* exactly one hash bucket, under its own size, and two hashed files share a
\* hash bucket exactly when they have the same size and the same digest.
C5_HashBucketsPartition ==
    pc = "hashed" =>
        /\ Members(files_by_hash_value) = Range(opened)
        /\ \A p \in Range(opened) :
             /\ Cardinality(Positions(files_by_hash_value, p)) = 1
             /\ files_by_hash_value[Position(files_by_hash_value, p)[1]].key
                  = getsize(tree, p)
             /\ \E k \in 1..Len(Get(files, getsize(tree, p))) :
                  Get(files, getsize(tree, p))[k] = p
        /\ \A p, q \in Range(opened) :
             LET pp == Position(files_by_hash_value, p)
                 pq == Position(files_by_hash_value, q)
             IN  (pp[1] = pq[1] /\ pp[2] = pq[2])
                   <=> /\ getsize(tree, p) = getsize(tree, q)
                       /\ hexdigest(Content(tree, p)) = hexdigest(Content(tree, q))

C5_Witness ==
    /\ pc = "hashed"
    /\ \E p, q, r \in Range(opened) :
         /\ Content(tree, p) # Content(tree, q)
         /\ Position(files_by_hash_value, p)[1] = Position(files_by_hash_value, q)[1]
         /\ Position(files_by_hash_value, p)[2] = Position(files_by_hash_value, q)[2]
         /\ Position(files_by_hash_value, p)[1] = Position(files_by_hash_value, r)[1]
         /\ Position(files_by_hash_value, p)[2] # Position(files_by_hash_value, r)[2]
    /\ \E p, q \in Range(opened) :
         /\ hexdigest(Content(tree, p)) = hexdigest(Content(tree, q))
         /\ getsize(tree, p) # getsize(tree, q)

\* C6: a delete_files call that completes prints one total, the sum of the
\* sizes of the files it removed, which is 0 when it removed none.
C6_FreedTotal ==
    pc = "deleted" =>
        report = << [kind |-> "total", total |-> TotalSize(Removed)] >>

C6_Witness ==
    /\ pc = "deleted"
    /\ Cardinality(Removed) = 2
    /\ \E j \in 1..Len(file_numbers) : file_numbers[j] = N + 1
    /\ \E p, q \in Removed : getsize(tree, p) # getsize(tree, q)

\* The sizes of consecutive size lines go up when reverse is false and down
\* when it is true.
InOrder(lines, reverse) ==
    \A i \in 1..(Len(lines) - 1) :
        IF reverse THEN lines[i].size > lines[i + 1].size
                   ELSE lines[i].size < lines[i + 1].size

\* The place of a duplicate file in the order (size order, digest insertion
\* order, file insertion order) comes before that of another.
ComesBefore(p, q, reverse) ==
    LET pp == Position(duplicate_files_dict, p)
        pq == Position(duplicate_files_dict, q)
        sp == duplicate_files_dict[pp[1]].key
        sq == duplicate_files_dict[pq[1]].key
    IN  \/ IF reverse THEN sp > sq ELSE sp < sq
        \/ sp = sq /\ pp[2] < pq[2]
        \/ sp = sq /\ pp[2] = pq[2] /\ pp[3] < pq[3]

\* C7: output_files and output_duplicates print the sizes in strictly
\* increasing order when the sort flag is false and in strictly decreasing
\* order when it is true, every size once; the number of a duplicate file is
\* its place in the order (size order by the flag, digest insertion order,
\* file insertion order).
C7_SizeOrder ==
    /\ pc = "listed" =>
         /\ InOrder(SizeLines(listing), sorting)
         /\ Len(SizeLines(listing)) = Len(files)
         /\ { l.size : l \in Range(SizeLines(listing)) } = Range(Keys(files))
    /\ pc = "numbered" =>
         /\ InOrder(SizeLines(dup_listing), sorting)
         /\ Len(SizeLines(dup_listing)) = Len(duplicate_files_dict)
         /\ { l.size : l \in Range(SizeLines(dup_listing)) }
              = Range(Keys(duplicate_files_dict))
         /\ \A i, j \in 1..Len(FileLines(dup_listing)) :
              i < j => ComesBefore(FileLines(dup_listing)[i].file,
                                   FileLines(dup_listing)[j].file, sorting)

C7_Witness ==
    /\ pc = "numbered"
    /\ sorting
    /\ Len(SizeLines(dup_listing)) >= 2
    /\ Len(SizeLines(listing)) >= 2
    /\ [ i \in 1..Len(SizeLines(dup_listing)) |-> SizeLines(dup_listing)[i].size ]
         # Keys(duplicate_files_dict)

Target(j) ==
    IF index_in_range(duplicate_files, file_numbers[j] - 1)
    THEN << getitem(duplicate_files, file_numbers[j] - 1) >>
    ELSE <<>>

\* The j-th number resolves to a file an earlier number of the batch
\* resolved to: its path is gone when its turn comes.
Gone(j) == Target(j) # <<>> /\ \E i \in 1..(j - 1) : Target(i) = Target(j)

\* C9: when the file of a number in 1..N is gone at its turn, and no earlier
\* turn failed, delete_files raises there: no total is printed, the files of
\* the earlier turns are removed and no other file is.
C9_FailedRemoveAborts ==
    \A j \in 1..Len(file_numbers) :
        ( /\ DeleteEnded
          /\ file_numbers[j] \in 1..N
          /\ Gone(j)
          /\ \A i \in 1..(j - 1) : ~Gone(i) ) =>
            /\ pc = "raised"
            /\ report = <<>>
            /\ Removed = { Target(i)[1] :
                           i \in { h \in 1..(j - 1) : Target(h) # <<>> } }

C9_Witness ==
    /\ pc = "raised"
    /\ Len(file_numbers) = 3
    /\ file_numbers[1] = 1
    /\ file_numbers[2] = 1
    /\ file_numbers[3] = N
    /\ N >= 2
    /\ Cardinality(Removed) = 1

Stages == << "add_files", "add_files_by_hash_value", "add_duplicate_files",
             "output_files", "output_duplicates", "delete_files" >>

\* C10: start_file_handler invokes the stages in the order index, hash,
\* build duplicate sets, plain listing, duplicate listing, deletion, each at
\* most once; delete_files only after the affirmative answer; and after the
\* one output_duplicates call duplicate_files has one entry per listed file.
C10_StageOrder ==
    /\ Len(calls) <= Len(Stages)
    /\ calls = SubSeq(Stages, 1, Len(calls))
    /\ (\E i \in 1..Len(calls) : calls[i] = "delete_files") => delete
    /\ pc = "numbered" =>
         /\ Len(duplicate_files) = Len(FileLines(dup_listing))
         /\ Cardinality(Range(duplicate_files)) = Len(duplicate_files)
         /\ Range(duplicate_files) = Members(duplicate_files_dict)
    /\ ~Numbered => duplicate_files = <<>>

C10_Witness ==
    /\ pc = "deleted"
    /\ Len(calls) = 6
    /\ Len(duplicate_files) >= 2

====
